---- MODULE Spec2Model ----
(***************************************************************************)
(* A model of the min-max heap of min-max-heap-rs: the index arithmetic    *)
(* (src/index.rs), the hole-based relocator (src/hole.rs), the queue       *)
(* operations (src/lib.rs) and the reference multiset the randomized test  *)
(* runs beside it (tests/fake_heap.rs, tests/random.rs).                   *)
(*                                                                         *)
(* Vectors are TLA+ sequences; the code's 0-based position i is            *)
(* element i + 1 of the sequence (At, Upd).  Option<T> is a sequence of    *)
(* length 0 (None) or 1 (Some).                                            *)
(***************************************************************************)
EXTENDS Integers, Sequences, FiniteSets

\* ------------------------------------------------------------------ bounds
\* Largest number of elements the heap is allowed to grow to.
MaxLen == 8

\* Elements are the integers 0 .. MaxVal.
MaxVal == 2

\* Longest vector a heap is built from, or a hole is opened on.
MaxVec == 7

\* Largest position the index functions are applied to.
MaxIndex == 24

Values == 0 .. MaxVal

\* Width of usize in bits (leading_zeros counts within this width).
WordBits == 64

\* ---------------------------------------------------------------- helpers
At(s, i) == s[i + 1]

Upd(s, i, v) == [s EXCEPT ![i + 1] = v]

None == << >>

Some(v) == << v >>

\* ------------------------------------------------------- index arithmetic
parent(i) == (i - 1) \div 2

grandparent(i) == parent(parent(i))

child1(i) == 2 * i + 1

child2(i) == 2 * i + 2

grandchild1(i) == child1(child1(i))

grandchild2(i) == child2(child1(i))

grandchild3(i) == child1(child2(i))

grandchild4(i) == child2(child2(i))

has_parent(i) == i > 0

\* Mutant of has_grandparent: position 2 counts as having one.
has_grandparent_from_two(i) == i > 1

has_grandparent(i) == i > 2

\* Number of bits needed to write n (0 for n = 0).
RECURSIVE BitLen(_)
BitLen(n) == IF n = 0 THEN 0 ELSE 1 + BitLen(n \div 2)

\* Mutant of leading_zeros: a word of odd width.
leading_zeros_odd_width(n) == WordBits - 1 - BitLen(n)

leading_zeros(n) == WordBits - BitLen(n)

is_min_level(i) == (leading_zeros(i + 1) % 2) = 1

\* ------------------------------------------------------------------- Hole
\* A hole is [data, elt, pos, ok]: the slice, the element held aside, the
\* hole's position, and whether every internal assertion held so far.  The
\* slot data[pos] keeps its stale contents while the hole is open.

\* Mutant of F: the comparisons are PartialOrd::le and PartialOrd::ge.
F_or_equal(f, a, b) == IF f = "lt" THEN a <= b ELSE a >= b

\* The comparison passed as `f`: PartialOrd::lt or PartialOrd::gt.
F(f, a, b) == IF f = "lt" THEN a < b ELSE a > b

Hole_new(data, pos) ==
    IF pos < Len(data)
    THEN [data |-> data, elt |-> At(data, pos), pos |-> pos, ok |-> TRUE]
    ELSE [data |-> data, elt |-> 0, pos |-> pos, ok |-> FALSE]

Hole_get(h, index) == At(h.data, index)

\* Mutant of move_to: the element at index is written into the hole's slot
\* but pos is not updated.
move_to_nomove(h, index) ==
    IF h.ok /\ index # h.pos /\ index >= 0 /\ index < Len(h.data)
    THEN [h EXCEPT !.data = Upd(h.data, h.pos, At(h.data, index))]
    ELSE [h EXCEPT !.ok = FALSE]

\* Mutant of move_to: the hole moves on without the element at index being
\* written into the slot it leaves.
move_to_nowrite(h, index) ==
    IF h.ok /\ index # h.pos /\ index >= 0 /\ index < Len(h.data)
    THEN [h EXCEPT !.pos = index]
    ELSE [h EXCEPT !.ok = FALSE]

move_to(h, index) ==
    IF h.ok /\ index # h.pos /\ index >= 0 /\ index < Len(h.data)
    THEN [h EXCEPT !.data = Upd(h.data, h.pos, At(h.data, index)),
                   !.pos = index]
    ELSE [h EXCEPT !.ok = FALSE]

swap_with_parent(h) ==
    IF h.ok /\ has_parent(h.pos)
    THEN [h EXCEPT !.data = Upd(h.data, parent(h.pos), h.elt),
                   !.elt = At(h.data, parent(h.pos))]
    ELSE [h EXCEPT !.ok = FALSE]

get_parent_unchecked(h) == Hole_get(h, parent(h.pos))

get_parent(h) ==
    IF has_parent(h.pos) THEN Some(get_parent_unchecked(h)) ELSE None

get_grandparent(h) ==
    IF has_grandparent(h.pos) THEN Some(Hole_get(h, grandparent(h.pos)))
    ELSE None

move_to_parent(h) ==
    IF has_parent(h.pos) THEN move_to(h, parent(h.pos))
    ELSE [h EXCEPT !.ok = FALSE]

\* Mutant of move_to_grandparent: the hole goes up one level only.
move_to_grandparent_one_up(h) ==
    IF has_grandparent(h.pos) THEN move_to(h, parent(h.pos))
    ELSE [h EXCEPT !.ok = FALSE]

move_to_grandparent(h) ==
    IF has_grandparent(h.pos) THEN move_to(h, grandparent(h.pos))
    ELSE [h EXCEPT !.ok = FALSE]

on_min_level(h) == is_min_level(h.pos)

\* Mutant of check: a candidate equal to the best so far replaces it.
check_or_equal(h, len, f, st, i, gen) ==
    IF ~st.go THEN st
    ELSE IF i < len
         THEN IF F(f, At(h.data, i), st.element)
                 \/ At(h.data, i) = st.element
              THEN [pos |-> i, depth |-> gen, element |-> At(h.data, i),
                    go |-> TRUE]
              ELSE st
         ELSE [st EXCEPT !.go = FALSE]

\* One call of the `check` closure: st is [pos, depth, element, go], where
\* go is the value of the && chain so far.
check(h, len, f, st, i, gen) ==
    IF ~st.go THEN st
    ELSE IF i < len
         THEN IF F(f, At(h.data, i), st.element)
              THEN [pos |-> i, depth |-> gen, element |-> At(h.data, i),
                    go |-> TRUE]
              ELSE st
         ELSE [st EXCEPT !.go = FALSE]

\* Mutant of index_of_best_child_or_grandchild: only the two children are
\* scanned, as in a plain binary heap.
index_of_best_child_only(h, len, f) ==
    LET here == h.pos
        s0 == [pos |-> here, depth |-> "Same", element |-> h.elt, go |-> TRUE]
        s1 == check(h, len, f, s0, child1(here), "Parent")
        s2 == check(h, len, f, s1, child2(here), "Parent")
    IN  [pos |-> s2.pos, depth |-> s2.depth]

index_of_best_child_or_grandchild(h, len, f) ==
    LET here == h.pos
        s0 == [pos |-> here, depth |-> "Same", element |-> h.elt, go |-> TRUE]
        s1 == check(h, len, f, s0, child1(here), "Parent")
        s2 == check(h, len, f, s1, child2(here), "Parent")
        s3 == check(h, len, f, s2, grandchild1(here), "Grandparent")
        s4 == check(h, len, f, s3, grandchild2(here), "Grandparent")
        s5 == check(h, len, f, s4, grandchild3(here), "Grandparent")
        s6 == check(h, len, f, s5, grandchild4(here), "Grandparent")
    IN  [pos |-> s6.pos, depth |-> s6.depth]

\* Mutant of fix_parent: the parent is never exchanged with the held element.
fix_parent_never(h, f) == h

\* The body of one Generation::Grandparent iteration after the move.
fix_parent(h, f) ==
    IF F(f, get_parent_unchecked(h), h.elt) THEN swap_with_parent(h) ELSE h

RECURSIVE trickle_down_best_len(_, _, _)
trickle_down_best_len(h, len, f) ==
    IF ~h.ok \/ len > Len(h.data) THEN [h EXCEPT !.ok = FALSE]
    ELSE LET best == index_of_best_child_or_grandchild(h, len, f)
         IN  CASE best.depth = "Grandparent" ->
                    trickle_down_best_len(fix_parent(move_to(h, best.pos), f),
                                          len, f)
               [] best.depth = "Parent" -> move_to(h, best.pos)
               [] OTHER -> h

RECURSIVE bubble_up_grandparent(_, _)
bubble_up_grandparent(h, f) ==
    IF ~h.ok THEN h
    ELSE LET g == get_grandparent(h)
         IN  IF g # None /\ F(f, h.elt, g[1])
             THEN bubble_up_grandparent(move_to_grandparent(h), f)
             ELSE h

bubble_up_min(h) == bubble_up_grandparent(h, "lt")

bubble_up_max(h) == bubble_up_grandparent(h, "gt")

Hole_bubble_up(h) ==
    LET p == get_parent(h)
    IN  IF ~h.ok THEN h
        ELSE IF on_min_level(h)
        THEN IF p # None /\ h.elt > p[1]
             THEN bubble_up_max(move_to_parent(h))
             ELSE bubble_up_min(h)
        ELSE IF p # None /\ h.elt < p[1]
             THEN bubble_up_min(move_to_parent(h))
             ELSE bubble_up_max(h)

trickle_down_min_len(h, len) == trickle_down_best_len(h, len, "lt")

trickle_down_max_len(h, len) == trickle_down_best_len(h, len, "gt")

trickle_down_len(h, len) ==
    IF on_min_level(h) THEN trickle_down_min_len(h, len)
    ELSE trickle_down_max_len(h, len)

Hole_trickle_down(h) == trickle_down_len(h, Len(h.data))

Hole_trickle_down_min(h) == trickle_down_min_len(h, Len(h.data))

Hole_trickle_down_max(h) == trickle_down_max_len(h, Len(h.data))

\* Drop for Hole: the held element is written at the hole's position.  The
\* result is [vec, ok].
Hole_drop(h) ==
    IF h.ok /\ h.pos < Len(h.data)
    THEN [vec |-> Upd(h.data, h.pos, h.elt), ok |-> TRUE]
    ELSE [vec |-> h.data, ok |-> FALSE]

\* ------------------------------------------------------------- MinMaxHeap
\* Every operation returns [vec, ret, ok]: the backing vector afterwards, the
\* value returned, and whether the call ran without a panic (an unwrap of
\* None, an index out of range, a failed assertion).

Front(s) == SubSeq(s, 1, Len(s) - 1)

Last(s) == s[Len(s)]

MinMaxHeap_bubble_up(vec, pos) == Hole_drop(Hole_bubble_up(Hole_new(vec, pos)))

trickle_down_min_slice(slice, pos) ==
    Hole_drop(Hole_trickle_down_min(Hole_new(slice, pos)))

MinMaxHeap_trickle_down_min(vec, pos) == trickle_down_min_slice(vec, pos)

MinMaxHeap_trickle_down_max(vec, pos) ==
    Hole_drop(Hole_trickle_down_max(Hole_new(vec, pos)))

\* Mutant of trickle_down_slice: the level of pos is ignored and the element
\* trickles down as on a min level.
trickle_down_slice_as_min(slice, pos) ==
    Hole_drop(Hole_trickle_down_min(Hole_new(slice, pos)))

trickle_down_slice(slice, pos) ==
    Hole_drop(Hole_trickle_down(Hole_new(slice, pos)))

len(vec) == Len(vec)

is_empty(vec) == Len(vec) = 0

push(vec, element) ==
    LET pos == len(vec)
        r == MinMaxHeap_bubble_up(Append(vec, element), pos)
    IN  [vec |-> r.vec, ret |-> None, ok |-> r.ok]

peek_min(vec) == IF Len(vec) = 0 THEN None ELSE Some(At(vec, 0))

\* Mutant of find_max_slice: a tie between positions 1 and 2 goes to 1.
find_max_slice_tie_first(slice) ==
    CASE Len(slice) = 0 -> None
      [] Len(slice) = 1 -> Some(0)
      [] Len(slice) = 2 -> Some(1)
      [] OTHER -> IF At(slice, 1) >= At(slice, 2) THEN Some(1) ELSE Some(2)

\* Mutant of find_max_slice: position 1 is taken without looking at 2.
find_max_slice_first(slice) ==
    CASE Len(slice) = 0 -> None
      [] Len(slice) = 1 -> Some(0)
      [] OTHER -> Some(1)

find_max_slice(slice) ==
    CASE Len(slice) = 0 -> None
      [] Len(slice) = 1 -> Some(0)
      [] Len(slice) = 2 -> Some(1)
      [] OTHER -> IF At(slice, 1) > At(slice, 2) THEN Some(1) ELSE Some(2)

find_max(vec) == find_max_slice(vec)

peek_max(vec) ==
    LET i == find_max(vec)
    IN  IF i = None THEN None ELSE Some(At(vec, i[1]))

\* Mutant of pop_min: the popped Option is unwrapped, so an empty heap panics.
pop_min_unwrap(vec) ==
    IF Len(vec) = 0 THEN [vec |-> vec, ret |-> None, ok |-> FALSE]
    ELSE LET item == Last(vec)
             rest == Front(vec)
         IN  IF Len(rest) = 0
             THEN [vec |-> rest, ret |-> Some(item), ok |-> TRUE]
             ELSE LET r == MinMaxHeap_trickle_down_min(Upd(rest, 0, item), 0)
                  IN  [vec |-> r.vec, ret |-> Some(At(rest, 0)), ok |-> r.ok]

pop_min(vec) ==
    IF Len(vec) = 0 THEN [vec |-> vec, ret |-> None, ok |-> TRUE]
    ELSE LET item == Last(vec)
             rest == Front(vec)
         IN  IF Len(rest) = 0
             THEN [vec |-> rest, ret |-> Some(item), ok |-> TRUE]
             ELSE LET r == MinMaxHeap_trickle_down_min(Upd(rest, 0, item), 0)
                  IN  [vec |-> r.vec, ret |-> Some(At(rest, 0)), ok |-> r.ok]

pop_max(vec) ==
    LET m == find_max(vec)
    IN  IF m = None THEN [vec |-> vec, ret |-> None, ok |-> TRUE]
        ELSE IF Len(vec) = 0 THEN [vec |-> vec, ret |-> None, ok |-> FALSE]
        ELSE LET max == m[1]
                 item == Last(vec)
                 rest == Front(vec)
             IN  IF max < Len(rest)
                 THEN LET r == MinMaxHeap_trickle_down_max(
                                   Upd(rest, max, item), max)
                      IN  [vec |-> r.vec, ret |-> Some(At(rest, max)),
                           ok |-> r.ok]
                 ELSE [vec |-> rest, ret |-> Some(item), ok |-> TRUE]

\* ------------------------------------------------- PeekMinMut, PeekMaxMut
\* A handle is the heap it borrows, the sift flag and (PeekMaxMut) max_index.

peek_min_mut(vec) ==
    IF is_empty(vec) THEN None ELSE Some([heap |-> vec, sift |-> FALSE])

PeekMinMut_deref(p) == At(p.heap, 0)

\* Mutant of PeekMinMut_write: the heap is repaired as soon as the slot is
\* written, not when the handle is dropped.
PeekMinMut_write_eager(p, v) ==
    [p EXCEPT !.heap = MinMaxHeap_trickle_down_min(Upd(p.heap, 0, v), 0).vec,
              !.sift = TRUE]

\* Mutant of PeekMinMut_write: deref_mut forgets to set sift.
PeekMinMut_write_nosift(p, v) == [p EXCEPT !.heap = Upd(p.heap, 0, v)]

\* *handle = v: deref_mut sets sift, then the slot is overwritten.
PeekMinMut_write(p, v) == [p EXCEPT !.heap = Upd(p.heap, 0, v), !.sift = TRUE]

\* Mutant of PeekMinMut_drop: the repair runs whatever sift says.
PeekMinMut_drop_always(p) == MinMaxHeap_trickle_down_min(p.heap, 0)

\* Mutant of PeekMinMut_drop: the handle is dropped without the repair.
PeekMinMut_drop_norepair(p) == [vec |-> p.heap, ok |-> TRUE]

PeekMinMut_drop(p) ==
    IF p.sift THEN MinMaxHeap_trickle_down_min(p.heap, 0)
    ELSE [vec |-> p.heap, ok |-> TRUE]

\* Mutant of PeekMinMut_pop: the heap is repaired as in Drop before the
\* minimum is popped.
PeekMinMut_pop_sifted(p) ==
    LET d == PeekMinMut_drop(p)
        r == pop_min(d.vec)
    IN  [vec |-> r.vec, ret |-> r.ret, ok |-> d.ok /\ r.ok /\ r.ret # None]

\* PeekMinMut::pop: sift is cleared, so the Drop that follows does nothing;
\* the unwrap panics on None.
PeekMinMut_pop(p) ==
    LET r == pop_min(p.heap)
    IN  [vec |-> r.vec, ret |-> r.ret, ok |-> r.ok /\ r.ret # None]

peek_max_mut(vec) ==
    LET i == find_max(vec)
    IN  IF i = None THEN None
        ELSE Some([heap |-> vec, max_index |-> i[1], sift |-> FALSE])

PeekMaxMut_deref(p) == At(p.heap, p.max_index)

\* Mutant of PeekMaxMut_write: deref_mut forgets to set sift.
PeekMaxMut_write_nosift(p, v) ==
    [p EXCEPT !.heap = Upd(p.heap, p.max_index, v)]

PeekMaxMut_write(p, v) ==
    [p EXCEPT !.heap = Upd(p.heap, p.max_index, v), !.sift = TRUE]

\* Mutant of PeekMaxMut_drop: the held element is not compared with the
\* parent slot before trickling down.
PeekMaxMut_drop_noparent(p) ==
    IF p.sift
    THEN Hole_drop(Hole_trickle_down_max(Hole_new(p.heap, p.max_index)))
    ELSE [vec |-> p.heap, ok |-> TRUE]

\* Drop for PeekMaxMut.  `parent.hole_element() < parent.other_element()`
\* compares the held element with the parent slot and `parent.swap_with()`
\* exchanges them; in hole.rs these are element, get_parent and
\* swap_with_parent.
PeekMaxMut_drop(p) ==
    IF p.sift
    THEN LET hole == Hole_new(p.heap, p.max_index)
             par == IF hole.ok THEN get_parent(hole) ELSE None
             h1 == IF par # None /\ hole.elt < par[1]
                   THEN swap_with_parent(hole) ELSE hole
         IN  Hole_drop(Hole_trickle_down_max(h1))
    ELSE [vec |-> p.heap, ok |-> TRUE]

\* PeekMaxMut::pop: sift is cleared and pop_max looks the maximum up again.
PeekMaxMut_pop(p) ==
    LET r == pop_max(p.heap)
    IN  [vec |-> r.vec, ret |-> r.ret, ok |-> r.ok /\ r.ret # None]

\* ------------------------------------------- push_pop_* and replace_*
\* Mutant of push_pop_min: an empty heap receives the element, as in
\* replace_min.
push_pop_min_pushes(vec, element) ==
    LET m == peek_min_mut(vec)
    IN  IF m = None
        THEN [vec |-> Append(vec, element), ret |-> element, ok |-> TRUE]
        ELSE LET min == m[1]
             IN  IF element > PeekMinMut_deref(min)
                 THEN LET r == PeekMinMut_drop(PeekMinMut_write(min, element))
                      IN  [vec |-> r.vec, ret |-> PeekMinMut_deref(min),
                           ok |-> r.ok]
                 ELSE LET r == PeekMinMut_drop(min)
                      IN  [vec |-> r.vec, ret |-> element, ok |-> r.ok]

push_pop_min(vec, element) ==
    LET m == peek_min_mut(vec)
    IN  IF m = None THEN [vec |-> vec, ret |-> element, ok |-> TRUE]
        ELSE LET min == m[1]
             IN  IF element > PeekMinMut_deref(min)
                 THEN LET r == PeekMinMut_drop(PeekMinMut_write(min, element))
                      IN  [vec |-> r.vec, ret |-> PeekMinMut_deref(min),
                           ok |-> r.ok]
                 ELSE LET r == PeekMinMut_drop(min)
                      IN  [vec |-> r.vec, ret |-> element, ok |-> r.ok]

push_pop_max(vec, element) ==
    LET m == peek_max_mut(vec)
    IN  IF m = None THEN [vec |-> vec, ret |-> element, ok |-> TRUE]
        ELSE LET max == m[1]
             IN  IF element < PeekMaxMut_deref(max)
                 THEN LET r == PeekMaxMut_drop(PeekMaxMut_write(max, element))
                      IN  [vec |-> r.vec, ret |-> PeekMaxMut_deref(max),
                           ok |-> r.ok]
                 ELSE LET r == PeekMaxMut_drop(max)
                      IN  [vec |-> r.vec, ret |-> element, ok |-> r.ok]

\* Mutant of replace_min: an empty heap is left empty, as in push_pop_min.
replace_min_nopush(vec, element) ==
    LET m == peek_min_mut(vec)
    IN  IF m = None
        THEN [vec |-> vec, ret |-> None, ok |-> TRUE]
        ELSE LET min == m[1]
                 r == PeekMinMut_drop(PeekMinMut_write(min, element))
             IN  [vec |-> r.vec, ret |-> Some(PeekMinMut_deref(min)),
                  ok |-> r.ok]

replace_min(vec, element) ==
    LET m == peek_min_mut(vec)
    IN  IF m = None
        THEN [vec |-> Append(vec, element), ret |-> None, ok |-> TRUE]
        ELSE LET min == m[1]
                 r == PeekMinMut_drop(PeekMinMut_write(min, element))
             IN  [vec |-> r.vec, ret |-> Some(PeekMinMut_deref(min)),
                  ok |-> r.ok]

replace_max(vec, element) ==
    LET m == peek_max_mut(vec)
    IN  IF m = None
        THEN [vec |-> Append(vec, element), ret |-> None, ok |-> TRUE]
        ELSE LET max == m[1]
                 isNewMin == len(max.heap) > 1 /\ element < At(max.heap, 0)
                 \* the element after the exchange with the current min
                 element1 == IF isNewMin THEN At(max.heap, 0) ELSE element
                 max1 == IF isNewMin
                         THEN [max EXCEPT !.heap = Upd(max.heap, 0, element)]
                         ELSE max
                 r == PeekMaxMut_drop(PeekMaxMut_write(max1, element1))
             IN  [vec |-> r.vec, ret |-> Some(PeekMaxMut_deref(max1)),
                  ok |-> r.ok]

\* ------------------------------------- rebuild, From<Vec>, sort extraction
\* The results are [vec, ok].

\* One pass of the loop of rebuild: `for n in (0 .. len / 2).rev()`, with k
\* the number of positions still to process (n = k - 1).
RECURSIVE rebuild_from(_, _, _)
rebuild_from(vec, k, okSoFar) ==
    IF k = 0 THEN [vec |-> vec, ok |-> okSoFar]
    ELSE LET r == trickle_down_slice(vec, k - 1)
         IN  rebuild_from(r.vec, k - 1, okSoFar /\ r.ok)

\* Mutant of rebuild: the loop starts one position short and leaves the last
\* parent alone.
rebuild_skip_last_parent(vec) ==
    rebuild_from(vec, IF Len(vec) \div 2 > 0 THEN Len(vec) \div 2 - 1 ELSE 0,
                 TRUE)

\* Mutant of rebuild: the loop runs over 0 ..= len / 2.
rebuild_through_half(vec) == rebuild_from(vec, Len(vec) \div 2 + 1, TRUE)

rebuild(vec) == rebuild_from(vec, Len(vec) \div 2, TRUE)

\* From<Vec<T>> for MinMaxHeap<T>
MinMaxHeap_from(vec) == rebuild(vec)

\* The loop of into_vec_asc: `elements` is the first k slots of vec.
RECURSIVE into_vec_asc_loop(_, _, _)
into_vec_asc_loop(vec, k, okSoFar) ==
    IF k <= 1 THEN [vec |-> vec, ok |-> okSoFar]
    ELSE LET m == find_max_slice(SubSeq(vec, 1, k))
             max == m[1]
             last == vec[k]
             rest == SubSeq(vec, 1, k - 1)
         IN  IF m = None THEN [vec |-> vec, ok |-> FALSE]
             ELSE IF max < Len(rest)
             THEN LET r == trickle_down_slice(Upd(rest, max, last), max)
                  IN  into_vec_asc_loop(
                          r.vec \o << At(rest, max) >>
                                \o SubSeq(vec, k + 1, Len(vec)),
                          k - 1, okSoFar /\ r.ok)
             ELSE into_vec_asc_loop(vec, k - 1, okSoFar)

into_vec_asc(vec) == into_vec_asc_loop(vec, Len(vec), TRUE)

\* The loop of into_vec_desc.
RECURSIVE into_vec_desc_loop(_, _, _)
into_vec_desc_loop(vec, k, okSoFar) ==
    IF k <= 1 THEN [vec |-> vec, ok |-> okSoFar]
    ELSE LET last == vec[k]
             rest == SubSeq(vec, 1, k - 1)
             r == trickle_down_min_slice(Upd(rest, 0, last), 0)
         IN  into_vec_desc_loop(
                 r.vec \o << At(rest, 0) >> \o SubSeq(vec, k + 1, Len(vec)),
                 k - 1, okSoFar /\ r.ok)

\* Mutant of into_vec_desc: the loop starts one slot short and leaves the last
\* slot where it is.
into_vec_desc_short(vec) ==
    into_vec_desc_loop(vec, IF Len(vec) > 0 THEN Len(vec) - 1 ELSE 0, TRUE)

into_vec_desc(vec) == into_vec_desc_loop(vec, Len(vec), TRUE)

\* --------------------------------------------------------------- FakeHeap
\* The reference structure of the randomized test: [tree, len], where tree
\* maps each element present to (its number of occurrences - 1).

FakeHeap_new == [tree |-> [k \in {} |-> 0], len |-> 0]

FakeHeap_push(fk, element) ==
    [tree |-> IF element \in DOMAIN fk.tree
              THEN [fk.tree EXCEPT ![element] = @ + 1]
              ELSE [k \in (DOMAIN fk.tree) \cup {element} |->
                        IF k = element THEN 0 ELSE fk.tree[k]],
     len |-> fk.len + 1]

FirstKey(tree) == CHOOSE k \in DOMAIN tree : \A j \in DOMAIN tree : k <= j

LastKey(tree) == CHOOSE k \in DOMAIN tree : \A j \in DOMAIN tree : k >= j

FakeHeap_peek_min(fk) ==
    IF DOMAIN fk.tree = {} THEN None ELSE Some(FirstKey(fk.tree))

FakeHeap_peek_max(fk) ==
    IF DOMAIN fk.tree = {} THEN None ELSE Some(LastKey(fk.tree))

\* The shared body of pop_min and pop_max once the entry elem is found.
FakeHeap_take(fk, elem) ==
    [tree |-> IF fk.tree[elem] >= 1
              THEN [fk.tree EXCEPT ![elem] = @ - 1]
              ELSE [k \in (DOMAIN fk.tree) \ {elem} |-> fk.tree[k]],
     len |-> fk.len - 1]

\* The FakeHeap operations return [fake, ret].
FakeHeap_pop_min(fk) ==
    IF DOMAIN fk.tree = {} THEN [fake |-> fk, ret |-> None]
    ELSE [fake |-> FakeHeap_take(fk, FirstKey(fk.tree)),
          ret |-> Some(FirstKey(fk.tree))]

FakeHeap_pop_max(fk) ==
    IF DOMAIN fk.tree = {} THEN [fake |-> fk, ret |-> None]
    ELSE [fake |-> FakeHeap_take(fk, LastKey(fk.tree)),
          ret |-> Some(LastKey(fk.tree))]

FakeHeap_push_pop_min(fk, element) ==
    LET r == FakeHeap_pop_min(FakeHeap_push(fk, element))
    IN  [fake |-> r.fake, ret |-> r.ret[1]]

FakeHeap_push_pop_max(fk, element) ==
    LET r == FakeHeap_pop_max(FakeHeap_push(fk, element))
    IN  [fake |-> r.fake, ret |-> r.ret[1]]

FakeHeap_replace_min(fk, element) ==
    LET r == FakeHeap_pop_min(fk)
    IN  [fake |-> FakeHeap_push(r.fake, element), ret |-> r.ret]

FakeHeap_replace_max(fk, element) ==
    LET r == FakeHeap_pop_max(fk)
    IN  [fake |-> FakeHeap_push(r.fake, element), ret |-> r.ret]

\* ---------------------------------------------------------- state machine
\* The Tester of tests/random.rs: a real heap and a fake heap that run the
\* same commands.  cmd is the last command, prev the real heap's vector
\* before it, ret and fret what the real and the fake heap returned, ok
\* whether no command has panicked.  handle is the PeekMinMut / PeekMaxMut
\* that borrows the heap, iter the DrainAsc / DrainDesc that borrows it, and
\* hole the Hole that is open on it; the Tester uses none of the three.
VARIABLES heap, fake, cmd, prev, ret, fret, ok, handle, iter, hole

vars == << heap, fake, cmd, prev, ret, fret, ok, handle, iter, hole >>

\* No PeekMinMut or PeekMaxMut is alive.
NoHandle ==
    [kind |-> "none", max_index |-> 0, sift |-> FALSE, written |-> FALSE,
     orig |-> << >>]

\* No DrainAsc or DrainDesc is alive.
NoIter == [kind |-> "none", len0 |-> 0, fronts |-> << >>, backs |-> << >>]

\* No Hole is open.
NoHole ==
    [pc |-> "idle", elt |-> 0, pos |-> 0, f |-> "lt", entry |-> "none",
     path |-> << >>]

Init ==
    /\ heap = << >>
    /\ fake = FakeHeap_new
    /\ cmd = [op |-> "new", arg |-> 0]
    /\ prev = << >>
    /\ ret = None
    /\ fret = None
    /\ ok = TRUE
    /\ handle = NoHandle
    /\ iter = NoIter
    /\ hole = NoHole

\* check_command: run one command on both heaps.
Run(op, arg, r, f) ==
    /\ heap' = r.vec
    /\ ret' = r.ret
    /\ ok' = (ok /\ r.ok)
    /\ fake' = f.fake
    /\ fret' = f.ret
    /\ cmd' = [op |-> op, arg |-> arg]
    /\ prev' = heap
    /\ UNCHANGED << handle, iter, hole >>

Push ==
    \E x \in Values :
        /\ Len(heap) < MaxLen
        /\ Run("push", x, push(heap, x),
               [fake |-> FakeHeap_push(fake, x), ret |-> None])

PopMin == Run("pop_min", 0, pop_min(heap), FakeHeap_pop_min(fake))

PopMax == Run("pop_max", 0, pop_max(heap), FakeHeap_pop_max(fake))

PushPopMin ==
    \E x \in Values :
        Run("push_pop_min", x, push_pop_min(heap, x),
            FakeHeap_push_pop_min(fake, x))

PushPopMax ==
    \E x \in Values :
        Run("push_pop_max", x, push_pop_max(heap, x),
            FakeHeap_push_pop_max(fake, x))

ReplaceMin ==
    \E x \in Values :
        /\ Len(heap) < MaxLen \/ Len(heap) > 0
        /\ Run("replace_min", x, replace_min(heap, x),
               FakeHeap_replace_min(fake, x))

ReplaceMax ==
    \E x \in Values :
        /\ Len(heap) < MaxLen \/ Len(heap) > 0
        /\ Run("replace_max", x, replace_max(heap, x),
               FakeHeap_replace_max(fake, x))

Next ==
    \/ Push
    \/ PopMin
    \/ PopMax
    \/ PushPopMin
    \/ PushPopMax
    \/ ReplaceMin
    \/ ReplaceMax

Spec == Init /\ [][Next]_vars

\* ------------------------------------------------------------ the heap alone
\* The MinMaxHeap as the unit tests of lib.rs use it: built with new() or
\* from a vector, driven by pushes, pops and replaces, sorted with
\* into_vec_asc / into_vec_desc on a clone, and drained.  The fake heap takes
\* no part.

\* The input vectors of From<Vec>.
Vectors == UNION {[1 .. n -> Values] : n \in 0 .. MaxVec}

\* The heap is built and nothing borrows it.
Idle ==
    /\ cmd.op # "vec"
    /\ handle.kind = "none"
    /\ iter = NoIter
    /\ hole.pc = "idle"

NoFake == [fake |-> fake, ret |-> fret]

\* An operation on the real heap alone; r is [vec, ret, ok].
Call(op, arg, r) == Run(op, arg, r, NoFake)

\* From<Vec>, first line: `let mut heap = MinMaxHeap(vec)` wraps an arbitrary
\* vector (the empty one gives what new() gives).
HeapInit ==
    /\ heap \in Vectors
    /\ fake = FakeHeap_new
    /\ cmd = [op |-> "vec", arg |-> 0]
    /\ prev = << >>
    /\ ret = None
    /\ fret = None
    /\ ok = TRUE
    /\ handle = NoHandle
    /\ iter = NoIter
    /\ hole = NoHole

\* From<Vec>, second line: heap.rebuild().
Rebuild ==
    /\ cmd.op = "vec"
    /\ Call("from", 0, [vec |-> MinMaxHeap_from(heap).vec, ret |-> None,
                        ok |-> MinMaxHeap_from(heap).ok])

HeapPush ==
    \E x \in Values :
        Idle /\ Len(heap) < MaxLen /\ Call("push", x, push(heap, x))

HeapPopMin == Idle /\ Call("pop_min", 0, pop_min(heap))

HeapPopMax == Idle /\ Call("pop_max", 0, pop_max(heap))

HeapReplaceMin ==
    \E x \in Values :
        /\ Idle
        /\ Len(heap) < MaxLen \/ Len(heap) > 0
        /\ Call("replace_min", x, replace_min(heap, x))

HeapReplaceMax ==
    \E x \in Values :
        /\ Idle
        /\ Len(heap) < MaxLen \/ Len(heap) > 0
        /\ Call("replace_max", x, replace_max(heap, x))

\* heap.clone().into_vec_asc(): the heap stays, ret is the vector returned.
IntoVecAsc ==
    /\ Idle
    /\ Call("into_vec_asc", 0, [vec |-> heap, ret |-> into_vec_asc(heap).vec,
                                ok |-> into_vec_asc(heap).ok])

IntoVecDesc ==
    /\ Idle
    /\ Call("into_vec_desc", 0, [vec |-> heap, ret |-> into_vec_desc(heap).vec,
                                 ok |-> into_vec_desc(heap).ok])

\* Mutant of DrainDesc_next: the front of a descending drain pops the minimum.
DrainDesc_next_min(vec) == pop_min(vec)

DrainAsc_next(vec) == pop_min(vec)

DrainAsc_next_back(vec) == pop_max(vec)

DrainDesc_next(vec) == pop_max(vec)

DrainDesc_next_back(vec) == pop_min(vec)

\* A call of the iterator: r is what it popped, front tells next() from
\* next_back().
IterCall(op, r, front) ==
    /\ heap' = r.vec
    /\ ret' = r.ret
    /\ ok' = (ok /\ r.ok)
    /\ cmd' = [op |-> op, arg |-> 0]
    /\ prev' = heap
    /\ iter' = IF r.ret = None THEN iter
               ELSE IF front
                    THEN [iter EXCEPT !.fronts = Append(@, r.ret[1])]
                    ELSE [iter EXCEPT !.backs = Append(@, r.ret[1])]
    /\ UNCHANGED << fake, fret, handle, hole >>

DrainCreate(kind) ==
    /\ Idle
    /\ iter' = [kind |-> kind, len0 |-> Len(heap), fronts |-> << >>,
                backs |-> << >>]
    /\ cmd' = [op |-> "drain", arg |-> 0]
    /\ prev' = heap
    /\ ret' = None
    /\ UNCHANGED << heap, fake, fret, ok, handle, hole >>

DrainAsc == DrainCreate("asc")

DrainDesc == DrainCreate("desc")

IterNext ==
    /\ iter.kind # "none"
    /\ IterCall("next",
                IF iter.kind = "asc" THEN DrainAsc_next(heap)
                ELSE DrainDesc_next(heap), TRUE)

IterNextBack ==
    /\ iter.kind # "none"
    /\ IterCall("next_back",
                IF iter.kind = "asc" THEN DrainAsc_next_back(heap)
                ELSE DrainDesc_next_back(heap), FALSE)

\* Vec::drain(start..end), the vec::Drain dropped with elements left in it:
\* the range is removed and the tail moves down.
Vec_drain(vec, start, end) ==
    SubSeq(vec, 1, start) \o SubSeq(vec, end + 1, Len(vec))

\* Mutant of DrainAsc_drop: the iterator has no Drop and the heap keeps what
\* was not taken.
DrainAsc_drop_keep(vec) == vec

\* Drop for DrainAsc: `let _ = (self.0).0.drain(..);`
DrainAsc_drop(vec) == Vec_drain(vec, 0, Len(vec))

\* Drop for DrainDesc
DrainDesc_drop(vec) == Vec_drain(vec, 0, Len(vec))

\* The iterator goes out of scope.
IterDrop ==
    /\ iter.kind # "none"
    /\ heap' = IF iter.kind = "asc" THEN DrainAsc_drop(heap)
               ELSE DrainDesc_drop(heap)
    /\ iter' = NoIter
    /\ cmd' = [op |-> "drain_drop", arg |-> 0]
    /\ prev' = heap
    /\ ret' = None
    /\ UNCHANGED << fake, fret, ok, handle, hole >>

HeapNext ==
    \/ Rebuild
    \/ HeapPush
    \/ HeapPopMin
    \/ HeapPopMax
    \/ HeapReplaceMin
    \/ HeapReplaceMax
    \/ IntoVecAsc
    \/ IntoVecDesc
    \/ DrainAsc
    \/ DrainDesc
    \/ IterNext
    \/ IterNextBack
    \/ IterDrop

HeapSpec == HeapInit /\ [][HeapNext]_vars

\* ------------------------------------------------------- the peek handles
\* The heap built from a vector, read with peek_min, peek_max, len and
\* is_empty, and borrowed by one PeekMinMut or PeekMaxMut at a time.  While a
\* handle lives, handle.kind tells which, handle.orig is the array it was
\* taken on and handle.written whether it was assigned through; once it is
\* gone kind is "none" and the rest still describes it.

HeapPeekMin ==
    Idle /\ Call("peek_min", 0, [vec |-> heap, ret |-> peek_min(heap),
                                 ok |-> TRUE])

HeapPeekMax ==
    Idle /\ Call("peek_max", 0, [vec |-> heap, ret |-> peek_max(heap),
                                 ok |-> TRUE])

HeapLen ==
    Idle /\ Call("len", 0, [vec |-> heap, ret |-> Some(len(heap)),
                            ok |-> TRUE])

HeapIsEmpty ==
    Idle /\ Call("is_empty", 0, [vec |-> heap, ret |-> Some(is_empty(heap)),
                                 ok |-> TRUE])

\* A step of a handle: what it does to the array, the handle and the result.
HandleStep(op, arg, vec, h, r, isOk) ==
    /\ heap' = vec
    /\ handle' = h
    /\ ret' = r
    /\ ok' = (ok /\ isOk)
    /\ cmd' = [op |-> op, arg |-> arg]
    /\ prev' = heap
    /\ UNCHANGED << fake, fret, iter, hole >>

HeapPeekMinMut ==
    /\ Idle
    /\ LET m == peek_min_mut(heap)
       IN  HandleStep("peek_min_mut", 0, heap,
                      IF m = None THEN NoHandle
                      ELSE [kind |-> "min", max_index |-> 0,
                            sift |-> m[1].sift, written |-> FALSE,
                            orig |-> heap],
                      None, TRUE)

HeapPeekMaxMut ==
    /\ Idle
    /\ LET m == peek_max_mut(heap)
       IN  HandleStep("peek_max_mut", 0, heap,
                      IF m = None THEN NoHandle
                      ELSE [kind |-> "max", max_index |-> m[1].max_index,
                            sift |-> m[1].sift, written |-> FALSE,
                            orig |-> heap],
                      None, TRUE)

\* The PeekMinMut / PeekMaxMut that the state describes.
MinHandle == [heap |-> heap, sift |-> handle.sift]

MaxHandle ==
    [heap |-> heap, max_index |-> handle.max_index, sift |-> handle.sift]

\* The handle is gone; the record keeps describing it.
Gone == [handle EXCEPT !.kind = "none"]

\* *handle read through Deref; the debug_assert of deref is part of it.
MinHandleDeref ==
    /\ handle.kind = "min"
    /\ HandleStep("deref", 0, heap, handle,
                  Some(PeekMinMut_deref(MinHandle)), ~is_empty(heap))

MaxHandleDeref ==
    /\ handle.kind = "max"
    /\ HandleStep("deref", 0, heap, handle,
                  Some(PeekMaxMut_deref(MaxHandle)),
                  handle.max_index < len(heap))

HandleDeref == MinHandleDeref \/ MaxHandleDeref

\* *handle = v through DerefMut.
MinHandleDerefMut ==
    \E v \in Values :
        /\ handle.kind = "min"
        /\ LET p == PeekMinMut_write(MinHandle, v)
           IN  HandleStep("deref_mut", v, p.heap,
                          [handle EXCEPT !.sift = p.sift,
                                         !.written = TRUE],
                          None, ~is_empty(heap))

MaxHandleDerefMut ==
    \E v \in Values :
        /\ handle.kind = "max"
        /\ LET p == PeekMaxMut_write(MaxHandle, v)
           IN  HandleStep("deref_mut", v, p.heap,
                          [handle EXCEPT !.sift = p.sift,
                                         !.written = TRUE],
                          None, handle.max_index < len(heap))

HandleDerefMut == MinHandleDerefMut \/ MaxHandleDerefMut

\* The handle goes out of scope.
MinHandleDrop ==
    /\ handle.kind = "min"
    /\ LET r == PeekMinMut_drop(MinHandle)
       IN  HandleStep("drop_min_mut", 0, r.vec, Gone, None, r.ok)

MaxHandleDrop ==
    /\ handle.kind = "max"
    /\ LET r == PeekMaxMut_drop(MaxHandle)
       IN  HandleStep("drop_max_mut", 0, r.vec, Gone, None, r.ok)

HandleDrop == MinHandleDrop \/ MaxHandleDrop

\* handle.pop()
HandlePop ==
    \/ /\ handle.kind = "min"
       /\ LET r == PeekMinMut_pop(MinHandle)
          IN  HandleStep("pop_min_mut", 0, r.vec, Gone, r.ret, r.ok)
    \/ /\ handle.kind = "max"
       /\ LET r == PeekMaxMut_pop(MaxHandle)
          IN  HandleStep("pop_max_mut", 0, r.vec, Gone, r.ret, r.ok)

\* mem::forget(handle): the handle is gone and its Drop never runs.
HandleLeak ==
    /\ handle.kind # "none"
    /\ HandleStep(IF handle.kind = "min" THEN "leak_min_mut"
                  ELSE "leak_max_mut", 0, heap, Gone, None, TRUE)

\* The handles with leaks: what the notes on peek_min_mut and peek_max_mut
\* warn about.
LeakNext ==
    \/ Rebuild
    \/ HeapPeekMinMut
    \/ HeapPeekMaxMut
    \/ HandleDerefMut
    \/ HandleDrop
    \/ HandleLeak

LeakSpec == HeapInit /\ [][LeakNext]_vars

\* The users of find_max: peek_max, pop_max, peek_max_mut and into_vec_asc,
\* also on arrays that a leaked handle has left out of order.
FindMaxNext ==
    \/ Rebuild
    \/ HeapPeekMax
    \/ HeapPopMax
    \/ IntoVecAsc
    \/ HeapPeekMaxMut
    \/ MaxHandleDeref
    \/ MaxHandleDerefMut
    \/ MaxHandleDrop
    \/ HandleLeak

FindMaxSpec == HeapInit /\ [][FindMaxNext]_vars

HandleNext ==
    \/ Rebuild
    \/ HeapPeekMin
    \/ HeapPeekMax
    \/ HeapLen
    \/ HeapIsEmpty
    \/ HeapPeekMinMut
    \/ HeapPeekMaxMut
    \/ HandleDeref
    \/ HandleDerefMut
    \/ HandleDrop
    \/ HandlePop

HandleSpec == HeapInit /\ [][HandleNext]_vars

HeapPushPopMin ==
    \E x \in Values :
        Idle /\ Call("push_pop_min", x, push_pop_min(heap, x))

HeapPushPopMax ==
    \E x \in Values :
        Idle /\ Call("push_pop_max", x, push_pop_max(heap, x))

\* `*heap.peek_min_mut().unwrap() = x;`: the handle is taken, assigned
\* through and dropped at the end of the statement.
HeapAssignMin ==
    \E x \in Values :
        /\ Idle
        /\ ~is_empty(heap)
        /\ LET d == PeekMinMut_drop(
                        PeekMinMut_write(peek_min_mut(heap)[1], x))
           IN  Call("assign_min", x, [vec |-> d.vec, ret |-> None,
                                      ok |-> d.ok])

HeapAssignMax ==
    \E x \in Values :
        /\ Idle
        /\ ~is_empty(heap)
        /\ LET d == PeekMaxMut_drop(
                        PeekMaxMut_write(peek_max_mut(heap)[1], x))
           IN  Call("assign_max", x, [vec |-> d.vec, ret |-> None,
                                      ok |-> d.ok])

\* The handle is taken, assigned through and consumed by PeekMinMut::pop.
HeapAssignPopMin ==
    \E x \in Values :
        /\ Idle
        /\ ~is_empty(heap)
        /\ Call("assign_pop_min", x,
                PeekMinMut_pop(PeekMinMut_write(peek_min_mut(heap)[1], x)))

HeapAssignPopMax ==
    \E x \in Values :
        /\ Idle
        /\ ~is_empty(heap)
        /\ Call("assign_pop_max", x,
                PeekMaxMut_pop(PeekMaxMut_write(peek_max_mut(heap)[1], x)))

\* `mem::forget` of a handle that was assigned through: the slot is written
\* and the repair of Drop never runs.
HeapLeakMin ==
    \E x \in Values :
        /\ Idle
        /\ ~is_empty(heap)
        /\ Call("leak_min", x,
                [vec |-> PeekMinMut_write(peek_min_mut(heap)[1], x).heap,
                 ret |-> None, ok |-> TRUE])

HeapLeakMax ==
    \E x \in Values :
        /\ Idle
        /\ ~is_empty(heap)
        /\ Call("leak_max", x,
                [vec |-> PeekMaxMut_write(peek_max_mut(heap)[1], x).heap,
                 ret |-> None, ok |-> TRUE])

\* The heap is one that From<Vec> has just built.  rebuild leaves a valid
\* heap as it is, so these are all the valid heaps of the vectors' lengths.
Fresh == cmd.op = "from"

\* The heap is fresh, or one that a handle leaked on a fresh heap or
\* PeekMaxMut::pop after an assignment has left behind: the calls that can
\* leave an invalid heap.
Settled == cmd.op \in {"from", "leak_min", "leak_max", "assign_pop_max"}

\* Every public operation that reaches the relocator, called on each settled
\* heap.
ApiNext ==
    \/ Rebuild
    \/ Settled /\ HeapPush
    \/ Settled /\ HeapPopMin
    \/ Settled /\ HeapPopMax
    \/ Settled /\ HeapPushPopMin
    \/ Settled /\ HeapPushPopMax
    \/ Settled /\ HeapReplaceMin
    \/ Settled /\ HeapReplaceMax
    \/ Settled /\ IntoVecAsc
    \/ Settled /\ IntoVecDesc
    \/ Settled /\ DrainAsc
    \/ Settled /\ DrainDesc
    \/ IterNext
    \/ IterNextBack
    \/ IterDrop
    \/ Settled /\ HeapAssignMin
    \/ Settled /\ HeapAssignMax
    \/ Settled /\ HeapAssignPopMin
    \/ Settled /\ HeapAssignPopMax
    \/ Fresh /\ HeapLeakMin
    \/ Fresh /\ HeapLeakMax

ApiSpec == HeapInit /\ [][ApiNext]_vars

\* ------------------------------------------------ rebuild, pass by pass
\* The loop of rebuild followed one iteration at a time: prev is the vector
\* From<Vec> was given, cmd.arg the loop variable n of the iteration that
\* ran last (len / 2 before the first).
RebuildBegin ==
    /\ cmd.op = "vec"
    /\ cmd' = [op |-> "rebuild", arg |-> len(heap) \div 2]
    /\ prev' = heap
    /\ UNCHANGED << heap, fake, ret, fret, ok, handle, iter, hole >>

\* One iteration: self.trickle_down(n) for the next n of the reversed range.
RebuildStep ==
    /\ cmd.op \in {"rebuild", "rebuild_step"}
    /\ cmd.arg > 0
    /\ LET n == cmd.arg - 1
           r == trickle_down_slice(heap, n)
       IN  /\ heap' = r.vec
           /\ ok' = (ok /\ r.ok)
           /\ cmd' = [op |-> "rebuild_step", arg |-> n]
    /\ UNCHANGED << fake, prev, ret, fret, handle, iter, hole >>

\* The range is exhausted and From<Vec> returns the heap.
RebuildEnd ==
    /\ cmd.op \in {"rebuild", "rebuild_step"}
    /\ cmd.arg = 0
    /\ cmd' = [op |-> "from", arg |-> 0]
    /\ UNCHANGED << heap, fake, prev, ret, fret, ok, handle, iter, hole >>

RebuildNext == RebuildBegin \/ RebuildStep \/ RebuildEnd

RebuildSpec == HeapInit /\ [][RebuildNext]_vars

\* --------------------------------------------------- the index functions
\* HeapIndex for usize applied to a position: cmd.arg is the position, cmd.op
\* the function applied last and ret what it returned.
IndexInit ==
    /\ heap = << >>
    /\ fake = FakeHeap_new
    /\ cmd \in [op : {"index"}, arg : 0 .. MaxIndex]
    /\ prev = << >>
    /\ ret = None
    /\ fret = None
    /\ ok = TRUE
    /\ handle = NoHandle
    /\ iter = NoIter
    /\ hole = NoHole

Apply(op, r) ==
    /\ cmd' = [op |-> op, arg |-> cmd.arg]
    /\ ret' = Some(r)
    /\ UNCHANGED << heap, fake, prev, fret, ok, handle, iter, hole >>

\* parent and grandparent subtract from an unsigned position: they are
\* called where has_parent and has_grandparent hold.
IndexParent == has_parent(cmd.arg) /\ Apply("parent", parent(cmd.arg))

IndexGrandparent ==
    has_grandparent(cmd.arg) /\ Apply("grandparent", grandparent(cmd.arg))

IndexChild1 == Apply("child1", child1(cmd.arg))

IndexChild2 == Apply("child2", child2(cmd.arg))

IndexGrandchild1 == Apply("grandchild1", grandchild1(cmd.arg))

IndexGrandchild2 == Apply("grandchild2", grandchild2(cmd.arg))

IndexGrandchild3 == Apply("grandchild3", grandchild3(cmd.arg))

IndexGrandchild4 == Apply("grandchild4", grandchild4(cmd.arg))

IndexHasParent == Apply("has_parent", has_parent(cmd.arg))

IndexHasGrandparent == Apply("has_grandparent", has_grandparent(cmd.arg))

IndexIsMinLevel == Apply("is_min_level", is_min_level(cmd.arg))

IndexNext ==
    \/ IndexParent
    \/ IndexGrandparent
    \/ IndexChild1
    \/ IndexChild2
    \/ IndexGrandchild1
    \/ IndexGrandchild2
    \/ IndexGrandchild3
    \/ IndexGrandchild4
    \/ IndexHasParent
    \/ IndexHasGrandparent
    \/ IndexIsMinLevel

IndexSpec == IndexInit /\ [][IndexNext]_vars

\* ------------------------------------------------- one relocation, by steps
\* A Hole opened on an arbitrary slice and followed move by move: hole.pc is
\* the place in hole.rs the relocation has reached, hole.elt the element held
\* aside, hole.pos the hole's position, hole.f the comparison in use; heap is
\* the slice (its slot at hole.pos is stale) and prev the slice as it was
\* before Hole::new.  hole.entry is the operation the hole was opened for
\* and hole.path the positions the hole has been at, the first one first.
\* Once the hole is dropped pc is "idle" and the rest tells where the element
\* went.

\* The Hole that the state describes.
TheHole == [data |-> heap, elt |-> hole.elt, pos |-> hole.pos, ok |-> TRUE]

\* Hole::new(data, pos), about to run `entry`.
HoleNew(entry, pos, f) ==
    /\ cmd.op = "vec"
    /\ hole.pc = "idle"
    /\ LET h == Hole_new(heap, pos)
       IN  /\ hole' = [pc |-> entry, elt |-> h.elt, pos |-> h.pos, f |-> f,
                       entry |-> entry, path |-> << h.pos >>]
           /\ ok' = (ok /\ h.ok)
    /\ cmd' = [op |-> "hole_new", arg |-> pos]
    /\ prev' = heap
    /\ UNCHANGED << heap, fake, ret, fret, handle, iter >>

\* A step of the relocation: h is the hole afterwards.
HoleStep(op, h, pc, f) ==
    /\ heap' = h.data
    /\ hole' = [pc |-> pc, elt |-> h.elt, pos |-> h.pos, f |-> f,
                entry |-> hole.entry,
                path |-> IF op = "move_to" THEN Append(hole.path, h.pos)
                         ELSE hole.path]
    /\ ok' = (ok /\ h.ok)
    /\ cmd' = [op |-> op, arg |-> h.pos]
    /\ UNCHANGED << prev, fake, ret, fret, handle, iter >>

\* MinMaxHeap::bubble_up(pos)
NewBubbleUp ==
    \E pos \in 0 .. (len(heap) - 1) : HoleNew("bubble_up", pos, "lt")

\* trickle_down_slice(slice, pos)
NewTrickleDown ==
    \E pos \in 0 .. (len(heap) - 1) :
        HoleNew("trickle_down", pos, IF is_min_level(pos) THEN "lt" ELSE "gt")

\* trickle_down_min_slice(slice, pos)
NewTrickleDownMin ==
    \E pos \in 0 .. (len(heap) - 1) : HoleNew("trickle_down", pos, "lt")

\* MinMaxHeap::trickle_down_max(pos)
NewTrickleDownMax ==
    \E pos \in 0 .. (len(heap) - 1) : HoleNew("trickle_down", pos, "gt")

\* Drop for PeekMaxMut with sift set: the hole is opened at max_index.
NewPeekMaxMutDrop ==
    /\ find_max(heap) # None
    /\ HoleNew("peek_max_mut_drop", find_max(heap)[1], "gt")

\* Hole::bubble_up up to the call of bubble_up_min or bubble_up_max.
HoleBubbleUp ==
    /\ hole.pc = "bubble_up"
    /\ LET h == TheHole
           p == get_parent(h)
       IN  IF on_min_level(h)
           THEN IF p # None /\ h.elt > p[1]
                THEN HoleStep("move_to", move_to_parent(h),
                              "bubble_up_grandparent", "gt")
                ELSE HoleStep("stay", h, "bubble_up_grandparent", "lt")
           ELSE IF p # None /\ h.elt < p[1]
                THEN HoleStep("move_to", move_to_parent(h),
                              "bubble_up_grandparent", "lt")
                ELSE HoleStep("stay", h, "bubble_up_grandparent", "gt")

\* One turn of the loop of bubble_up_grandparent.
HoleBubbleUpGrandparent ==
    /\ hole.pc = "bubble_up_grandparent"
    /\ LET h == TheHole
           g == get_grandparent(h)
       IN  IF g # None /\ F(hole.f, h.elt, g[1])
           THEN HoleStep("move_to", move_to_grandparent(h),
                         "bubble_up_grandparent", hole.f)
           ELSE HoleStep("stay", h, "done", hole.f)

\* Drop for PeekMaxMut: the exchange with the parent before trickle_down_max.
HolePeekMaxMutDrop ==
    /\ hole.pc = "peek_max_mut_drop"
    /\ LET h == TheHole
           par == get_parent(h)
       IN  IF par # None /\ h.elt < par[1]
           THEN HoleStep("swap_with_parent", swap_with_parent(h),
                         "trickle_down", "gt")
           ELSE HoleStep("stay", h, "trickle_down", "gt")

\* One turn of the loop of trickle_down_best_len, up to its move_to.
HoleTrickleDown ==
    /\ hole.pc = "trickle_down"
    /\ LET h == TheHole
           best == index_of_best_child_or_grandchild(h, Len(heap), hole.f)
       IN  CASE best.depth = "Grandparent" ->
                  HoleStep("move_to", move_to(h, best.pos), "fix_parent",
                           hole.f)
             [] best.depth = "Parent" ->
                  HoleStep("move_to", move_to(h, best.pos), "done", hole.f)
             [] OTHER -> HoleStep("stay", h, "done", hole.f)

\* The rest of a Generation::Grandparent turn.
HoleFixParent ==
    /\ hole.pc = "fix_parent"
    /\ LET h == TheHole
           h1 == fix_parent(h, hole.f)
       IN  HoleStep(IF h1 = h THEN "stay" ELSE "swap_with_parent", h1,
                    "trickle_down", hole.f)

\* Drop for Hole
HoleDrop ==
    /\ hole.pc = "done"
    /\ LET r == Hole_drop(TheHole)
       IN  /\ heap' = r.vec
           /\ ok' = (ok /\ r.ok)
    /\ hole' = [hole EXCEPT !.pc = "idle"]
    /\ cmd' = [op |-> "hole_drop", arg |-> hole.pos]
    /\ UNCHANGED << prev, fake, ret, fret, handle, iter >>

HoleNext ==
    \/ NewBubbleUp
    \/ NewTrickleDown
    \/ NewTrickleDownMin
    \/ NewTrickleDownMax
    \/ NewPeekMaxMutDrop
    \/ HoleBubbleUp
    \/ HoleBubbleUpGrandparent
    \/ HolePeekMaxMutDrop
    \/ HoleTrickleDown
    \/ HoleFixParent
    \/ HoleDrop

HoleSpec == HeapInit /\ [][HoleNext]_vars

\* ------------------------------------------------- vocabulary of the claims
Positions(vec) == 0 .. (Len(vec) - 1)

\* Depth of position i in the implicit tree (the root has depth 0).
RECURSIVE Depth(_)
Depth(i) == IF i = 0 THEN 0 ELSE 1 + Depth((i - 1) \div 2)

MinLevel(i) == Depth(i) % 2 = 0

\* j lies in the subtree below i.
RECURSIVE Below(_, _)
Below(j, i) == j > i /\ (((j - 1) \div 2) = i \/ Below((j - 1) \div 2, i))

HeapInvariant(vec) ==
    \A i \in Positions(vec) : \A j \in Positions(vec) :
        Below(j, i) =>
            IF MinLevel(i) THEN At(vec, i) <= At(vec, j)
            ELSE At(vec, i) >= At(vec, j)

Count(vec, v) == Cardinality({i \in Positions(vec) : At(vec, i) = v})

SameElements(a, b) == \A v \in Values : Count(a, v) = Count(b, v)

FakeCount(fk, v) == IF v \in DOMAIN fk.tree THEN fk.tree[v] + 1 ELSE 0

Elements(vec) == {At(vec, i) : i \in Positions(vec)}

IsMinOf(v, vec) == v \in Elements(vec) /\ \A w \in Elements(vec) : v <= w

IsMaxOf(v, vec) == v \in Elements(vec) /\ \A w \in Elements(vec) : v >= w

B(b) == IF b THEN 1 ELSE 0

\* the multiset of a is that of b with one v removed and one w added
Swapped(a, b, v, w) ==
    \A u \in Values : Count(a, u) = Count(b, u) - B(u = v) + B(u = w)

Ascending(s) == \A i \in 1 .. (Len(s) - 1) : s[i] <= s[i + 1]

Descending(s) == \A i \in 1 .. (Len(s) - 1) : s[i] >= s[i + 1]

\* vec is a permutation of 0 .. Len(vec) - 1
IsPermutationOfRange(vec) == \A v \in Positions(vec) : Count(vec, v) = 1

Iota(n) == [i \in 1 .. n |-> i - 1]

IotaDown(n) == [i \in 1 .. n |-> n - i]

\* every element of a is <= every element of b
AllLeq(a, b) == \A v \in Elements(a) : \A w \in Elements(b) : v <= w

\* the number of elements the draining iterator has handed out
Taken == Len(iter.fronts) + Len(iter.backs)

\* the multiset of a is that of b with one v removed
Removed(a, b, v) == \A u \in Values : Count(a, u) = Count(b, u) - B(u = v)

\* the multiset of the slots of vec other than pos, together with elt
HoleCount(vec, pos, elt, v) ==
    Cardinality({i \in Positions(vec) \ {pos} : At(vec, i) = v}) + B(elt = v)

ParentOf(i) == (i - 1) \div 2

GrandparentOf(i) == ParentOf(ParentOf(i))

\* The children and grandchildren of position i among the first n slots.
Candidates(i, n) ==
    {c \in 1 .. (n - 1) :
        ParentOf(c) = i \/ (c >= 3 /\ GrandparentOf(c) = i)}

\* a comes before b in the order the relocation is sorting by
Better(a, b) == IF hole.f = "lt" THEN a < b ELSE a > b

\* The hole was opened to bubble up / to trickle down.
Bubbling == hole.entry = "bubble_up"

Trickling == hole.entry \in {"trickle_down", "peek_max_mut_drop"}

\* The position the hole was opened at, and the one it was at before its
\* last move.
Start == hole.path[1]

From == hole.path[Len(hole.path) - 1]

RECURSIVE Log2Floor(_)
Log2Floor(n) == IF n <= 1 THEN 0 ELSE 1 + Log2Floor(n \div 2)

\* The positions reached from i by repeatedly taking the parent.
RECURSIVE Ancestors(_)
Ancestors(i) ==
    IF i <= 0 THEN {} ELSE {ParentOf(i)} \cup Ancestors(ParentOf(i))

\* The subtree rooted at i keeps the order of i's level: no element below a
\* min-level node is smaller than it, none below a max-level node greater,
\* for i and every node below it.
SubtreeInvariant(vec, i) ==
    \A a \in Positions(vec) : \A b \in Positions(vec) :
        ((a = i \/ Below(a, i)) /\ Below(b, a)) =>
            IF MinLevel(a) THEN At(vec, a) <= At(vec, b)
            ELSE At(vec, a) >= At(vec, b)

\* The number of bits needed to write n: the powers of two up to n.
BitsNeeded(n) == Cardinality({k \in 0 .. n : 2 ^ k <= n})

\* The position of the maximum as a function of the array alone.
MaxPos(vec) ==
    IF Len(vec) <= 2 THEN Len(vec) - 1
    ELSE IF At(vec, 1) > At(vec, 2) THEN 1 ELSE 2

\* the calls that only read
ReadOnly ==
    {"peek_min", "peek_max", "len", "is_empty", "peek_min_mut",
     "peek_max_mut", "deref"}

HandleDrops == {"drop_min_mut", "drop_max_mut"}

HandleLeaks == {"leak_min_mut", "leak_max_mut"}

PushPops == {"push_pop_min", "push_pop_max"}

Replaces == {"replace_min", "replace_max"}

Pops == {"pop_min", "pop_max"}

\* ------------------------------------------------------------------ claims

\* C1: after any sequence of push, pop_min, pop_max, push_pop_min,
\* push_pop_max, replace_min and replace_max from the empty heap, every
\* element at a min-level position is <= every element in its subtree and
\* every element at a max-level position is >= every element in its subtree.
C1_HeapInvariantHolds == HeapInvariant(heap)

C1_Witness ==
    /\ cmd.op = "replace_max"
    /\ Len(heap) >= 7
    /\ Cardinality(Elements(heap)) >= 3

\* C2: after every operation, peek_min is the minimum and peek_max the
\* maximum of the contained elements when the heap is non-empty, and both are
\* None when it is empty.
C2_ExtremaCorrect ==
    IF Len(heap) = 0
    THEN peek_min(heap) = None /\ peek_max(heap) = None
    ELSE /\ peek_min(heap) # None
         /\ IsMinOf(peek_min(heap)[1], heap)
         /\ peek_max(heap) # None
         /\ IsMaxOf(peek_max(heap)[1], heap)

C2_Witness ==
    /\ cmd.op = "pop_min"
    /\ Len(heap) >= 3
    /\ At(heap, 1) < At(heap, 2)
    /\ At(heap, 0) < At(heap, 1)

\* C3: every command returns the same value on the MinMaxHeap and on the
\* reference multiset, and the two hold the same multiset afterwards.
C3_MatchesFakeHeap ==
    /\ ret = fret
    /\ \A v \in Values : Count(heap, v) = FakeCount(fake, v)

C3_Witness ==
    /\ cmd.op = "push_pop_max"
    /\ ret # cmd.arg
    /\ Len(heap) >= 4
    /\ \E v \in Values : Count(heap, v) >= 2

\* C4: len() grows by exactly 1 on every push, shrinks by exactly 1 on every
\* pop_min or pop_max that returns an element, and always equals the number
\* of elements pushed and not yet popped (the count the reference keeps).
C4_SizeAccounting ==
    /\ cmd.op = "push" => len(heap) = len(prev) + 1
    /\ (cmd.op \in Pops /\ ret # None) => len(heap) = len(prev) - 1
    /\ len(heap) = fake.len

C4_Witness ==
    /\ cmd.op = "pop_max"
    /\ ret # None
    /\ len(prev) = 1

\* C5 as stated: push_pop_min, push_pop_max, replace_min and replace_max
\* never leave len() greater than it was before the call.
C5_NeverGrows ==
    cmd.op \in PushPops \cup Replaces => len(heap) <= len(prev)

\* C5 amended: push_pop_min and push_pop_max never leave len() greater than
\* before; replace_min and replace_max never leave len() greater than before
\* when the heap was non-empty, and on an empty heap they leave len() = 1.
C5_NeverGrowsNonEmpty ==
    /\ cmd.op \in PushPops => len(heap) <= len(prev)
    /\ (cmd.op \in Replaces /\ len(prev) > 0) => len(heap) <= len(prev)
    /\ (cmd.op \in Replaces /\ len(prev) = 0) => len(heap) = 1

C5_Witness ==
    /\ cmd.op = "replace_max"
    /\ len(prev) >= 3
    /\ len(heap) = len(prev)

C7_PushPopMinIsPushThenPop ==
    cmd.op = "push_pop_min" =>
        LET r == pop_min(push(prev, cmd.arg).vec)
        IN  /\ Some(ret) = r.ret
            /\ SameElements(heap, r.vec)
            /\ HeapInvariant(heap)
            /\ len(heap) = len(prev)
            /\ (len(prev) = 0 \/ cmd.arg <= At(prev, 0)) =>
                   (ret = cmd.arg /\ heap = prev)

C7_Witness ==
    /\ cmd.op = "push_pop_min"
    /\ len(prev) >= 4
    /\ cmd.arg > At(prev, 0)
    /\ heap # prev

\* C8: push_pop_max(x) returns what push(x) followed by pop_max() returns
\* and leaves the same multiset, in a heap that satisfies the invariant and
\* has the length it had; when the heap is empty or x >= the maximum it
\* returns x and leaves the backing array as it was.
C8_PushPopMaxIsPushThenPop ==
    cmd.op = "push_pop_max" =>
        LET r == pop_max(push(prev, cmd.arg).vec)
        IN  /\ Some(ret) = r.ret
            /\ SameElements(heap, r.vec)
            /\ HeapInvariant(heap)
            /\ len(heap) = len(prev)
            /\ (len(prev) = 0 \/ IsMaxOf(cmd.arg, Append(prev, cmd.arg))) =>
                   (ret = cmd.arg /\ heap = prev)

\* the pushed element is smaller than the current minimum
C8_Witness ==
    /\ cmd.op = "push_pop_max"
    /\ len(prev) >= 4
    /\ cmd.arg < At(prev, 0)

\* C9: replace_min(x) returns what pop_min() returns and leaves the multiset
\* that pop_min() followed by push(x) leaves: on a non-empty heap it returns
\* Some(old minimum) and the multiset is the old one with one old minimum
\* replaced by x, the invariant holding; on an empty heap it returns None
\* and the heap holds exactly x.
C9_ReplaceMinIsPopThenPush ==
    cmd.op = "replace_min" =>
        LET p == pop_min(prev)
            r == push(p.vec, cmd.arg)
        IN  /\ ret = p.ret
            /\ SameElements(heap, r.vec)
            /\ HeapInvariant(heap)
            /\ len(prev) > 0 =>
                   /\ ret # None
                   /\ IsMinOf(ret[1], prev)
                   /\ Swapped(heap, prev, ret[1], cmd.arg)
            /\ len(prev) = 0 => (ret = None /\ heap = << cmd.arg >>)

C9_Witness ==
    /\ cmd.op = "replace_min"
    /\ len(prev) >= 4
    /\ IsMaxOf(cmd.arg, heap)
    /\ cmd.arg > At(prev, 0)

\* C10: replace_max(x) returns what pop_max() returns and leaves the
\* multiset that pop_max() followed by push(x) leaves: on a non-empty heap
\* (duplicates included) it returns Some(old maximum) and the multiset is
\* the old one with one old maximum replaced by x, the invariant holding; on
\* an empty heap it returns None and the heap holds exactly x.
C10_ReplaceMaxIsPopThenPush ==
    cmd.op = "replace_max" =>
        LET p == pop_max(prev)
            r == push(p.vec, cmd.arg)
        IN  /\ ret = p.ret
            /\ SameElements(heap, r.vec)
            /\ HeapInvariant(heap)
            /\ len(prev) > 0 =>
                   /\ ret # None
                   /\ IsMaxOf(ret[1], prev)
                   /\ Swapped(heap, prev, ret[1], cmd.arg)
            /\ len(prev) = 0 => (ret = None /\ heap = << cmd.arg >>)

\* the heap held its maximum twice and x is below the old minimum
C10_Witness ==
    /\ cmd.op = "replace_max"
    /\ len(prev) >= 4
    /\ Count(prev, ret[1]) >= 2
    /\ cmd.arg < At(prev, 0)

\* C11: for every heap reached by the commands or built from a vector
\* (duplicates allowed), into_vec_asc returns a vector of the same length and
\* the same multiset as the heap, in non-decreasing order; when the heap holds
\* a permutation of 0 .. n-1 the vector is exactly 0, 1, ..., n-1.
C11_IntoVecAscSorts ==
    cmd.op = "into_vec_asc" =>
        /\ ok
        /\ Len(ret) = Len(prev)
        /\ SameElements(ret, prev)
        /\ Ascending(ret)
        /\ IsPermutationOfRange(prev) => ret = Iota(Len(prev))

\* into_vec_asc has sorted a heap with duplicates that holds every value and
\* whose array was not already sorted.
C11_Witness ==
    /\ cmd.op = "into_vec_asc"
    /\ Len(ret) >= 5
    /\ Elements(ret) = Values
    /\ ~Ascending(prev)

\* C12: for every heap reached by the commands or built from a vector
\* (duplicates allowed), into_vec_desc returns a vector of the same length and
\* the same multiset as the heap, in non-increasing order; when the heap holds
\* a permutation of 0 .. n-1 the vector is exactly n-1, ..., 1, 0.
C12_IntoVecDescSorts ==
    cmd.op = "into_vec_desc" =>
        /\ ok
        /\ Len(ret) = Len(prev)
        /\ SameElements(ret, prev)
        /\ Descending(ret)
        /\ IsPermutationOfRange(prev) => ret = IotaDown(Len(prev))

\* into_vec_desc has sorted a heap with duplicates that holds every value.
C12_Witness ==
    /\ cmd.op = "into_vec_desc"
    /\ Len(ret) >= 5
    /\ Elements(ret) = Values
    /\ ~Descending(prev)

\* C13: the heap built from an arbitrary vector, of any length from 0 and
\* with duplicates, has a backing array that is a permutation of the vector
\* and satisfies the min-max heap invariant.
C13_FromVecBuildsHeap ==
    cmd.op = "from" =>
        /\ ok
        /\ Len(heap) = Len(prev)
        /\ SameElements(heap, prev)
        /\ HeapInvariant(heap)

\* A heap was built from a vector with duplicates that was not a heap.
C13_Witness ==
    /\ cmd.op = "from"
    /\ Len(prev) >= 5
    /\ Elements(prev) = Values
    /\ ~HeapInvariant(prev)
    /\ heap # prev

\* C14: while a heap of n elements is drained with any interleaving of next()
\* and next_back(), the elements left are n minus those handed out, a call
\* returns None exactly when all n have been handed out, and for drain_asc
\* the next() values are non-decreasing, the next_back() values are
\* non-increasing and every next() value is <= every next_back() value;
\* drain_desc is the mirror image.
C14_DrainOrder ==
    iter.kind # "none" =>
        /\ ok
        /\ Len(heap) + Taken = iter.len0
        /\ cmd.op \in {"next", "next_back"} =>
               ((ret = None) <=> (Len(prev) = 0 /\ Taken = iter.len0))
        /\ iter.kind = "asc" =>
               /\ Ascending(iter.fronts)
               /\ Descending(iter.backs)
               /\ AllLeq(iter.fronts, iter.backs)
        /\ iter.kind = "desc" =>
               /\ Descending(iter.fronts)
               /\ Ascending(iter.backs)
               /\ AllLeq(iter.backs, iter.fronts)

\* A descending drain of at least five elements has been emptied from both
\* ends and a further call has returned None.
C14_Witness ==
    /\ iter.kind = "desc"
    /\ iter.len0 >= 5
    /\ Len(iter.fronts) >= 2
    /\ Len(iter.backs) >= 2
    /\ Elements(iter.fronts) \cup Elements(iter.backs) = Values
    /\ cmd.op = "next"
    /\ ret = None

\* C15: when a handle taken with peek_min_mut on a heap that satisfies the
\* invariant has been assigned a value v and is dropped, the heap satisfies
\* the invariant again, its length is what it was, and its multiset is the
\* old one with one instance of the old minimum replaced by v.
C15_PeekMinMutWriteDrop ==
    (cmd.op = "drop_min_mut" /\ handle.written
        /\ HeapInvariant(handle.orig)) =>
        /\ ok
        /\ HeapInvariant(heap)
        /\ Len(heap) = Len(handle.orig)
        /\ IsMinOf(At(handle.orig, 0), handle.orig)
        /\ Swapped(heap, handle.orig, At(handle.orig, 0), At(prev, 0))

\* A PeekMinMut on a valid heap was assigned a value that is not its minimum
\* any more, and the drop moved it away from the root.
C15_Witness ==
    /\ cmd.op = "drop_min_mut"
    /\ handle.written
    /\ HeapInvariant(handle.orig)
    /\ Len(heap) >= 5
    /\ At(prev, 0) > At(handle.orig, 0)
    /\ At(heap, 0) # At(prev, 0)

\* C16: when a handle taken with peek_max_mut on a heap that satisfies the
\* invariant (a single element included) has been assigned a value v (one
\* below the minimum included) and is dropped, the heap satisfies the
\* invariant again, its length is what it was, and its multiset is the old
\* one with one instance of the old maximum replaced by v.
C16_PeekMaxMutWriteDrop ==
    (cmd.op = "drop_max_mut" /\ handle.written
        /\ HeapInvariant(handle.orig)) =>
        /\ ok
        /\ HeapInvariant(heap)
        /\ Len(heap) = Len(handle.orig)
        /\ IsMaxOf(At(handle.orig, handle.max_index), handle.orig)
        /\ Swapped(heap, handle.orig, At(handle.orig, handle.max_index),
                   At(prev, handle.max_index))

\* A PeekMaxMut on a valid heap was assigned a value below the minimum, and
\* the drop moved that value to the root.
C16_Witness ==
    /\ cmd.op = "drop_max_mut"
    /\ handle.written
    /\ HeapInvariant(handle.orig)
    /\ Len(heap) >= 5
    /\ At(prev, handle.max_index) < At(handle.orig, 0)
    /\ At(heap, 0) = At(prev, handle.max_index)

\* C17: PeekMinMut::pop on a handle taken on a heap that satisfies the
\* invariant returns the value the handle dereferences to when it is called
\* (position 0, also after an assignment through the handle), removes one
\* instance of it, so that the length decreases by 1, and leaves a heap that
\* satisfies the invariant.
C17_PeekMinMutPop ==
    (cmd.op = "pop_min_mut" /\ HeapInvariant(handle.orig)) =>
        /\ ok
        /\ ret = Some(At(prev, 0))
        /\ Len(heap) = Len(prev) - 1
        /\ Removed(heap, prev, At(prev, 0))
        /\ HeapInvariant(heap)

\* PeekMinMut::pop returned a value assigned through the handle that was not
\* the minimum of the array.
C17_Witness ==
    /\ cmd.op = "pop_min_mut"
    /\ handle.written
    /\ HeapInvariant(handle.orig)
    /\ Len(prev) >= 5
    /\ ~IsMinOf(At(prev, 0), prev)
    /\ ret = Some(At(prev, 0))

\* C18: PeekMaxMut::pop on a handle taken on a heap that satisfies the
\* invariant returns the value the handle dereferences to when it is called
\* (the handle's max position, also after an assignment through the handle),
\* removes one instance of it, so that the length decreases by 1, and leaves
\* a heap that satisfies the invariant.
C18_PeekMaxMutPop ==
    (cmd.op = "pop_max_mut" /\ HeapInvariant(handle.orig)) =>
        /\ ok
        /\ ret = Some(At(prev, handle.max_index))
        /\ Len(heap) = Len(prev) - 1
        /\ Removed(heap, prev, At(prev, handle.max_index))
        /\ HeapInvariant(heap)

\* C19: a call of peek_min, peek_max, len or is_empty, taking a handle with
\* peek_min_mut or peek_max_mut, reading through it, and dropping a handle
\* that was never assigned through all leave the backing array, and so the
\* length, exactly as they were; a peek repeated right after itself returns
\* the same value.
C19_ReadOnlyKeepsHeap ==
    [][((cmd'.op \in ReadOnly)
            \/ (cmd'.op \in HandleDrops /\ ~handle.written)) =>
          /\ heap' = heap
          /\ Len(heap') = Len(heap)
          /\ ok' = ok
          /\ (cmd.op = cmd'.op /\ cmd.op \in ReadOnly) => ret' = ret]_vars

\* A PeekMaxMut was read through and dropped without an assignment, on a
\* heap of at least five elements.
C19_Witness ==
    /\ cmd.op = "drop_max_mut"
    /\ ~handle.written
    /\ Len(heap) >= 5
    /\ heap = handle.orig

\* C20: from the creation of a hole on, after each move_to and each
\* swap_with_parent, the slots of the array other than the hole's position
\* together with the element held aside make up the multiset of the array
\* as it was before the hole was created; once the hole is dropped the
\* element held aside is at the hole's last position and the array is a
\* permutation of the original one.
C20_HoleKeepsElements ==
    /\ hole.pc # "idle" =>
          /\ ok
          /\ Len(heap) = Len(prev)
          /\ hole.pos \in Positions(heap)
          /\ \A v \in Values :
                 HoleCount(heap, hole.pos, hole.elt, v) = Count(prev, v)
    /\ cmd.op = "hole_drop" =>
          /\ ok
          /\ Len(heap) = Len(prev)
          /\ At(heap, hole.pos) = hole.elt
          /\ SameElements(heap, prev)

\* A hole was moved to a grandchild, its element exchanged with the parent
\* there, and the hole dropped: three slots of the array have changed.
C20_Witness ==
    /\ cmd.op = "hole_drop"
    /\ Len(heap) >= 5
    /\ Cardinality({i \in Positions(heap) : At(heap, i) # At(prev, i)}) >= 3
    /\ hole.elt # At(prev, hole.pos)

\* C21: a handle that was assigned through and then leaked leaves the array
\* as the assignment left it, the array the handle was taken on with the
\* peeked slot overwritten and nothing repaired; so, for a handle taken on a
\* heap that satisfies the invariant, the invariant holds afterwards only if
\* the value written happens to fit (for PeekMinMut: it is a minimum of the
\* array; for PeekMaxMut: it is >= the root and everything below its slot),
\* and there are heaps and values for which it is violated.
C21_LeakLeavesHeapUnrepaired ==
    (cmd.op \in HandleLeaks /\ handle.written
        /\ HeapInvariant(handle.orig)) =>
        /\ Len(heap) = Len(handle.orig)
        /\ \A j \in Positions(heap) \ {handle.max_index} :
               At(heap, j) = At(handle.orig, j)
        /\ cmd.op = "leak_min_mut" =>
               (HeapInvariant(heap) <=> IsMinOf(At(heap, 0), heap))
        /\ cmd.op = "leak_max_mut" =>
               (HeapInvariant(heap) <=>
                   /\ At(heap, 0) <= At(heap, handle.max_index)
                   /\ \A j \in Positions(heap) :
                          Below(j, handle.max_index) =>
                              At(heap, j) <= At(heap, handle.max_index))

\* A PeekMinMut taken on a valid heap was assigned through and leaked, and
\* the array violates the invariant.
C21_Witness ==
    /\ cmd.op = "leak_min_mut"
    /\ handle.written
    /\ HeapInvariant(handle.orig)
    /\ Len(heap) >= 5
    /\ ~HeapInvariant(heap)

\* C22: when replace_max(x) or push_pop_max(x) is applied to a heap of at
\* least 2 elements and x is strictly smaller than the current minimum (and
\* so smaller than the maximum), x is at position 0 afterwards and the
\* former minimum is still in the heap, at a position other than 0.
C22_NewMinGoesToRoot ==
    (cmd.op \in {"replace_max", "push_pop_max"} /\ Len(prev) >= 2
        /\ IsMinOf(At(prev, 0), prev) /\ cmd.arg < At(prev, 0)) =>
        /\ ok
        /\ At(heap, 0) = cmd.arg
        /\ \E j \in Positions(heap) \ {0} : At(heap, j) = At(prev, 0)

\* replace_max was given a value below the minimum of a heap of at least five
\* elements whose maximum was at position 2.
C22_Witness ==
    /\ cmd.op = "replace_max"
    /\ Len(prev) >= 5
    /\ cmd.arg < At(prev, 0)
    /\ find_max(prev) = Some(2)
    /\ At(heap, 0) = cmd.arg
    /\ ret = Some(At(prev, 2))

\* C23: the maximum is looked up by position alone: none for length 0,
\* position 0 for length 1, position 1 for length 2, and from length 3 on
\* position 1 if its element is strictly greater than the one at position 2
\* and position 2 otherwise.  peek_max returns the element there, pop_max
\* removes and returns it, peek_max_mut hands out a handle on it and
\* into_vec_asc moves it to the end first.
C23_MaxFoundByPosition ==
    /\ cmd.op = "peek_max" =>
          ret = IF Len(heap) = 0 THEN None ELSE Some(At(heap, MaxPos(heap)))
    /\ cmd.op = "pop_max" =>
          /\ ret = IF Len(prev) = 0 THEN None
                   ELSE Some(At(prev, MaxPos(prev)))
          /\ Len(prev) > 0 => Removed(heap, prev, At(prev, MaxPos(prev)))
    /\ cmd.op = "peek_max_mut" =>
          /\ (handle.kind = "none") <=> (Len(heap) = 0)
          /\ handle.kind = "max" => handle.max_index = MaxPos(heap)
    /\ (cmd.op = "deref" /\ handle.kind = "max") =>
          ret = Some(At(heap, MaxPos(handle.orig)))
    /\ (cmd.op = "into_vec_asc" /\ Len(prev) > 0) =>
          /\ Len(ret) = Len(prev)
          /\ Last(ret) = At(prev, MaxPos(prev))

\* peek_max_mut was called on a heap of at least five elements whose
\* positions 1 and 2 hold the same value, and the handle is on position 2.
C23_Witness ==
    /\ cmd.op = "peek_max_mut"
    /\ Len(heap) >= 5
    /\ HeapInvariant(heap)
    /\ At(heap, 1) = At(heap, 2)
    /\ At(heap, 1) > At(heap, 0)
    /\ handle.max_index = 2

C26_MovesToBestCandidate ==
    (Trickling /\ cmd.op = "move_to") =>
        /\ hole.pos \in Candidates(From, Len(heap))
        /\ \A c \in Candidates(From, Len(heap)) :
               /\ ~Better(At(heap, c), At(heap, hole.pos))
               /\ At(heap, c) = At(heap, hole.pos) => hole.pos <= c

\* The hole has moved to a grandchild although a later grandchild holds the
\* same value.
C26_Witness ==
    /\ Trickling
    /\ cmd.op = "move_to"
    /\ hole.pos >= 3
    /\ GrandparentOf(hole.pos) = From
    /\ \E c \in Candidates(From, Len(heap)) :
           c > hole.pos /\ At(heap, c) = At(heap, hole.pos)

\* C27 as stated: the trickle-down loop stops without moving the hole only
\* when the hole's position has no child within the live length.
C27_StopsOnlyWithoutChild ==
    (Trickling /\ cmd.op = "stay" /\ hole.pc = "done") =>
        Candidates(hole.pos, Len(heap)) = {}

\* C27 amended: the trickle-down loop stops without moving the hole exactly
\* when no child or grandchild within the live length is strictly smaller
\* (trickle_down_min) or strictly greater (trickle_down_max) than the held
\* element, as when there is no child; otherwise the hole moves to a
\* candidate that is, and the loop ends after a move to a direct child and
\* goes on after a move to a grandchild.
C27_StopsWhenNoneBetter ==
    /\ (Trickling /\ cmd.op = "stay" /\ hole.pc = "done") =>
          \A c \in Candidates(hole.pos, Len(heap)) :
              ~Better(At(heap, c), hole.elt)
    /\ (Trickling /\ cmd.op = "move_to") =>
          /\ Better(At(heap, hole.pos), hole.elt)
          /\ hole.pc = IF ParentOf(hole.pos) = From THEN "done"
                       ELSE "fix_parent"

\* The loop has stopped at a position that has children and grandchildren.
C27_Witness ==
    /\ Trickling
    /\ cmd.op = "stay"
    /\ hole.pc = "done"
    /\ hole.path = << 0 >>
    /\ Len(heap) >= 5
    /\ \E c \in Candidates(0, Len(heap)) : At(heap, c) = hole.elt
    /\ \E c \in Candidates(0, Len(heap)) : At(heap, c) # hole.elt

\* C28: when the hole has moved to a grandchild while trickling down, the
\* held element is compared with the slot of the hole's new parent and the
\* two are exchanged, the hole staying where it is, only if the held element
\* was strictly greater (trickle_down_min) or strictly less
\* (trickle_down_max); afterwards the parent slot is >= (resp. <=) the held
\* element.
C28_ParentFixedAfterGrandchild ==
    (Trickling /\ hole.pc = "trickle_down" /\ Len(hole.path) > 1) =>
        /\ hole.pos >= 3
        /\ GrandparentOf(hole.pos) = From
        /\ cmd.op \in {"swap_with_parent", "stay"}
        /\ ~Better(At(heap, ParentOf(hole.pos)), hole.elt)
        /\ cmd.op = "swap_with_parent" =>
               At(heap, ParentOf(hole.pos)) # hole.elt

\* The element of a hole opened at the root was exchanged with the parent
\* slot after the first move to a grandchild.
C28_Witness ==
    /\ Trickling
    /\ hole.pc = "trickle_down"
    /\ cmd.op = "swap_with_parent"
    /\ Len(hole.path) = 2
    /\ Start = 0
    /\ Len(heap) >= 5

\* C29: in every call the public operations make, the relocator's
\* preconditions hold: a hole is opened at a position below the slice length,
\* move_to is given an index below it that is not the hole's position, and
\* parent and grandparent are taken only of positions > 0 and > 2; no
\* assertion fails and no unsigned subtraction underflows.
C29_RelocatorPreconditions == ok = TRUE

\* A handle on the maximum of a heap of at least five elements was assigned
\* the smallest value and dropped, which relocates through the parent.
C29_Witness ==
    /\ cmd.op = "assign_max"
    /\ cmd.arg = 0
    /\ Len(heap) >= 5
    /\ heap # prev
    /\ ok

\* C30: every move of the hole while bubbling up strictly decreases its
\* position and every move while trickling down strictly increases it and
\* keeps it below the live length, and a relocation on len elements makes at
\* most floor(log2(len)) moves before the held element is written back.
C30_MovesBounded ==
    hole.entry # "none" =>
        /\ hole.pos = hole.path[Len(hole.path)]
        /\ \A k \in 2 .. Len(hole.path) :
               /\ Bubbling => hole.path[k] < hole.path[k - 1]
               /\ Trickling =>
                      /\ hole.path[k] > hole.path[k - 1]
                      /\ hole.path[k] < Len(heap)
        /\ Len(hole.path) - 1 <= Log2Floor(Len(heap))

\* A hole opened at the root of at least five elements was written back
\* after moving.
C30_Witness ==
    /\ cmd.op = "hole_drop"
    /\ Trickling
    /\ Start = 0
    /\ Len(hole.path) >= 2
    /\ Len(heap) >= 5

\* C31: push(x) onto a heap of length n changes only slot n and slots at
\* ancestors of n; every other slot keeps its element, and each element
\* displaced from an ancestor slot ends in a descendant of its old position
\* on the path from n to the root: the slot the hole left for it.
C31_PushTouchesAncestorsOnly ==
    (Bubbling /\ cmd.op = "hole_drop") =>
        /\ Len(heap) = Len(prev)
        /\ \A i \in 0 .. (Len(heap) - 1) :
               At(heap, i) # At(prev, i) => i \in Ancestors(Start) \cup {Start}
        /\ \A i \in 0 .. (Len(heap) - 1) :
               (\A k \in 1 .. Len(hole.path) : hole.path[k] # i) =>
                   At(heap, i) = At(prev, i)
        /\ \A k \in 1 .. (Len(hole.path) - 1) :
               /\ hole.path[k + 1] \in Ancestors(hole.path[k])
               /\ At(heap, hole.path[k]) = At(prev, hole.path[k + 1])
        /\ At(heap, hole.path[Len(hole.path)]) = At(prev, Start)

\* A smaller element pushed onto a valid heap of six elements went to the
\* root and the root's element went to slot n, past an untouched parent.
C31_Witness ==
    /\ Bubbling
    /\ cmd.op = "hole_drop"
    /\ Len(prev) = 7
    /\ Start = 6
    /\ HeapInvariant(Front(prev))
    /\ hole.path = << 6, 0 >>
    /\ At(heap, 6) = At(prev, 0)
    /\ At(heap, 0) < At(heap, 6)
    /\ At(heap, 2) = At(prev, 2)

\* C32: during the rebuild of From<Vec>, which trickles down positions
\* len/2 - 1 down to 0, after position n has been processed every subtree
\* rooted at a position >= n satisfies the min-max invariant for its level,
\* and the slots at positions < n still hold the input vector's elements.
C32_RebuildBottomUp ==
    /\ cmd.op = "rebuild" => cmd.arg = Len(prev) \div 2
    /\ cmd.op = "rebuild_step" =>
          /\ cmd.arg < Len(prev) \div 2
          /\ Len(heap) = Len(prev)
          /\ \A i \in Positions(heap) :
                 /\ i >= cmd.arg => SubtreeInvariant(heap, i)
                 /\ i < cmd.arg => At(heap, i) = At(prev, i)

\* Position 1 of a seven-element vector has been processed: its subtree was
\* out of order and is in order now, while the root still breaks the
\* invariant with its input element.
C32_Witness ==
    /\ cmd.op = "rebuild_step"
    /\ cmd.arg = 1
    /\ Len(heap) = 7
    /\ ~SubtreeInvariant(prev, 1)
    /\ SubtreeInvariant(heap, 1)
    /\ ~SubtreeInvariant(heap, 0)

\* C33: when a DrainAsc or DrainDesc iterator is dropped, the heap it was
\* created from is empty, however many elements were taken from the iterator
\* before, none included.
C33_DrainDropEmpties ==
    cmd.op = "drain_drop" =>
        /\ len(heap) = 0
        /\ is_empty(heap)
        /\ iter.kind = "none"

\* A DrainAsc or DrainDesc on a heap of the largest size was dropped with
\* nothing taken from it.
C33_Witness ==
    /\ cmd.op = "drain_drop"
    /\ Len(prev) = MaxLen
    /\ HeapInvariant(prev)
    /\ heap = << >>

\* C34: is_min_level(i), the lowest bit of leading_zeros(i + 1) on a word of
\* even width, is true exactly when the number of bits needed to write
\* i + 1 is odd, that is when floor(log2(i + 1)) is even; so is_min_level(0)
\* is true and the two children of i are on the other kind of level than i.
C34_MinLevelByBitLength ==
    LET i == cmd.arg
    IN  /\ is_min_level(i) <=> (BitsNeeded(i + 1) % 2 = 1)
        /\ is_min_level(i) <=> (Log2Floor(i + 1) % 2 = 0)
        /\ is_min_level(0)
        /\ is_min_level(child1(i)) = ~is_min_level(i)
        /\ is_min_level(child2(i)) = ~is_min_level(i)
        /\ cmd.op = "is_min_level" =>
               ret = Some(BitsNeeded(i + 1) % 2 = 1)

\* is_min_level has answered for a position on the fifth level, a min level
\* whose parent is on a max level.
C34_Witness ==
    /\ cmd.op = "is_min_level"
    /\ cmd.arg >= 15
    /\ ret = Some(TRUE)
    /\ BitsNeeded(cmd.arg + 1) = 5
    /\ ~is_min_level(parent(cmd.arg))

\* C35: the index functions agree with each other for every position i:
\* the parent of child1(i) and of child2(i) is i, the grandparent of each of
\* grandchild1(i) .. grandchild4(i) is i, the six are strictly increasing in
\* that order and all greater than i, and has_grandparent(i) holds exactly
\* when i > 0 and parent(i) > 0.
C35_IndexFunctionsConsistent ==
    LET i == cmd.arg
    IN  /\ parent(child1(i)) = i
        /\ parent(child2(i)) = i
        /\ grandparent(grandchild1(i)) = i
        /\ grandparent(grandchild2(i)) = i
        /\ grandparent(grandchild3(i)) = i
        /\ grandparent(grandchild4(i)) = i
        /\ i < child1(i)
        /\ child1(i) < child2(i)
        /\ child2(i) < grandchild1(i)
        /\ grandchild1(i) < grandchild2(i)
        /\ grandchild2(i) < grandchild3(i)
        /\ grandchild3(i) < grandchild4(i)
        /\ has_grandparent(i) <=> (i > 0 /\ parent(i) > 0)
        /\ cmd.op = "has_grandparent" =>
               ret = Some(i > 0 /\ parent(i) > 0)
        /\ cmd.op = "grandparent" => child1(child1(ret[1])) <= i
                                       /\ i <= child2(child2(ret[1]))

\* grandparent has been applied to the last grandchild of a position that
\* is not the root.
C35_Witness ==
    /\ cmd.op = "grandparent"
    /\ ret # None
    /\ ret[1] > 0
    /\ cmd.arg = grandchild4(ret[1])

====
